---- MODULE Spec2Model ----
(***************************************************************************)
(* Model of generate_authelia_hash.py: a flat script that checks its       *)
(* arguments, draws a 16-byte salt, derives a PBKDF2-HMAC-SHA512 key,      *)
(* base64-encodes salt and key without padding, assembles the Authelia     *)
(* hash string and prints it in 50-character chunks.                       *)
(*                                                                         *)
(* Text is a sequence of one-character strings; bytes are 0..255; the      *)
(* command-line arguments are sequences of Unicode code points.            *)
(***************************************************************************)
EXTENDS Integers, Sequences, FiniteSets, TLC

(* ---------------------------- bounds ----------------------------------- *)
MaxPwLen == 2        \* longest password drawn
MaxExtraArgs == 1    \* arguments supplied after the password
MaxSeed == 1         \* salts drawn: seeds 0..MaxSeed
MaxRot == 1          \* salts drawn: rotations 0..MaxRot of each seed
MaxStrLen == 151     \* longest string given to the chunk loop on its own
MaxOff == 1          \* alphabet offsets of those strings

(* ---------------------------- text helpers ----------------------------- *)
Min(a, b) == IF a < b THEN a ELSE b

B64Alphabet ==
  <<"A", "B", "C", "D", "E", "F", "G", "H", "I", "J", "K", "L", "M", "N", "O", "P",
    "Q", "R", "S", "T", "U", "V", "W", "X", "Y", "Z", "a", "b", "c", "d", "e", "f",
    "g", "h", "i", "j", "k", "l", "m", "n", "o", "p", "q", "r", "s", "t", "u", "v",
    "w", "x", "y", "z", "0", "1", "2", "3", "4", "5", "6", "7", "8", "9", "+", "/">>

Digits == <<"0", "1", "2", "3", "4", "5", "6", "7", "8", "9">>

\* str(n) for a non-negative integer, as the f-string formats it
RECURSIVE IntToStr(_)
IntToStr(n) ==
  IF n < 10 THEN <<Digits[n + 1]>>
  ELSE Append(IntToStr(n \div 10), Digits[(n % 10) + 1])

\* s[lo:hi] for 0 <= lo <= hi: the slice stops at the end of s
PySlice(s, lo, hi) == SubSeq(s, lo + 1, Min(hi, Len(s)))

\* s.rstrip('=')
RECURSIVE RStripPad(_)
RStripPad(s) ==
  IF s # <<>> /\ s[Len(s)] = "=" THEN RStripPad(SubSeq(s, 1, Len(s) - 1))
  ELSE s

\* one code point as UTF-8 bytes
Utf8Char(cp) ==
  IF cp < 128 THEN <<cp>>
  ELSE IF cp < 2048 THEN <<192 + (cp \div 64), 128 + (cp % 64)>>
  ELSE IF cp < 65536 THEN
    <<224 + (cp \div 4096), 128 + ((cp \div 64) % 64), 128 + (cp % 64)>>
  ELSE <<240 + (cp \div 262144), 128 + ((cp \div 4096) % 64),
         128 + ((cp \div 64) % 64), 128 + (cp % 64)>>

\* str.encode(): UTF-8
RECURSIVE Utf8Encode(_)
Utf8Encode(s) ==
  IF s = <<>> THEN <<>> ELSE Utf8Char(Head(s)) \o Utf8Encode(Tail(s))

\* one base64 group: 1, 2 or 3 bytes give 4 characters, padded with '='
B64Group(g) ==
  LET b1 == g[1]
      b2 == IF Len(g) >= 2 THEN g[2] ELSE 0
      b3 == IF Len(g) >= 3 THEN g[3] ELSE 0
      c1 == B64Alphabet[(b1 \div 4) + 1]
      c2 == B64Alphabet[((b1 % 4) * 16 + (b2 \div 16)) + 1]
      c3 == B64Alphabet[((b2 % 16) * 4 + (b3 \div 64)) + 1]
      c4 == B64Alphabet[(b3 % 64) + 1]
  IN  IF Len(g) = 1 THEN <<c1, c2, "=", "=">>
      ELSE IF Len(g) = 2 THEN <<c1, c2, c3, "=">>
      ELSE <<c1, c2, c3, c4>>

\* base64.b64encode(bytes).decode(): RFC 4648, standard alphabet, padded
RECURSIVE B64Encode(_)
B64Encode(bytes) ==
  IF bytes = <<>> THEN <<>>
  ELSE B64Group(SubSeq(bytes, 1, Min(3, Len(bytes))))
         \o B64Encode(SubSeq(bytes, 4, Len(bytes)))

RECURSIVE SumSeq(_)
SumSeq(s) == IF s = <<>> THEN 0 ELSE Head(s) + SumSeq(Tail(s))

(* ---------------------------- program constants ------------------------ *)
UsageText ==
  <<"U", "s", "a", "g", "e", ":", " ", "p", "y", "t", "h", "o", "n", "3", " ",
    "g", "e", "n", "e", "r", "a", "t", "e", "_", "a", "u", "t", "h", "e", "l",
    "i", "a", "_", "h", "a", "s", "h", ".", "p", "y", " ", "<", "p", "a", "s",
    "s", "w", "o", "r", "d", ">">>

UsageExitStatusClean == 1 - 1
UsageExitStatus == 1          \* sys.exit(1)

SaltBytesShort == 16 - 1
SaltBytes == 16               \* os.urandom(16)

iterations == 310000
digest == <<"s", "h", "a", "5", "1", "2">>

\* hashlib.new('sha512').digest_size, the dklen pbkdf2_hmac defaults to
DigestSize(hash_name) == 64

(* output lines: the literal part of each print and its interpolated fields *)
UsageLine == [kind |-> "Usage", n |-> 0, text |-> UsageText]
LengthLine(n) == [kind |-> "Length", n |-> n, text |-> <<>>]
ChunkLine(k, t) == [kind |-> "Chunk", n |-> k, text |-> t]

(* ---------------------------- inputs ----------------------------------- *)
ProgName ==
  <<103, 101, 110, 101, 114, 97, 116, 101, 95, 97, 117, 116, 104, 101, 108,
    105, 97, 95, 104, 97, 115, 104, 46, 112, 121>>

PwAlphabet == {97, 233}             \* 'a' (one UTF-8 byte), e-acute (two)
ExtraArg == <<120>>                 \* 'x'

Passwords == UNION {[1..n -> PwAlphabet] : n \in 0..MaxPwLen}

\* sys.argv: the script name, then the arguments given
ArgvSet ==
  {<<ProgName>>} \cup
  {<<ProgName, p>> \o [k \in 1..e |-> ExtraArg] :
     p \in Passwords, e \in 0..MaxExtraArgs}

\* os.urandom(n): any n bytes; the values drawn here are a small family in
\* which rotations of one seed are distinct salts with the same byte sum
OsUrandom(n) ==
  {[k \in 1..n |-> (seed * 97 + ((k - 1 + rot) % n) * 29 + 3) % 256] :
     seed \in 0..MaxSeed, rot \in 0..MaxRot}

\* hashlib.pbkdf2_hmac(hash_name, password, salt, iterations): a
\* deterministic function of its arguments giving digest_size bytes.  The
\* primitive is a library routine; this stand-in keeps only those two facts
\* and is deliberately not collision-free (it depends on the salt through
\* its byte sum), so nothing checked below rests on collision resistance.
Pbkdf2Hmac(hash_name, pw, slt, iters) ==
  LET a == (SumSeq(pw) + 3 * SumSeq(slt) + 5 * Len(pw) + iters) % 256
  IN  [k \in 1..DigestSize(hash_name) |-> (a * k + 7 * k * k + a) % 256]

(* ---------------------------- statement helpers ------------------------ *)
\* line 6: len(sys.argv) < 2
ArgCheckExactlyOne(av) == Len(av) # 2
ArgCheckFails(av) == Len(av) < 2

\* line 10: sys.argv[1]
PasswordArgLast(av) == av[Len(av)]
PasswordArg(av) == av[2]

\* lines 18, 19: base64.b64encode(x).decode().rstrip('=')
EncodeFieldPadded(bytes) == B64Encode(bytes)
EncodeField(bytes) == RStripPad(B64Encode(bytes))

\* line 21: f'$pbkdf2-{digest}${iterations}${b64_salt}${b64_hash}'
FullHashRepeatedField(dg, it, bs, bh) ==
  <<"$", "p", "b", "k", "d", "f", "2", "-">> \o dg \o <<"$">> \o IntToStr(it)
    \o <<"$">> \o bh \o <<"$">> \o bh
FullHash(dg, it, bs, bh) ==
  <<"$", "p", "b", "k", "d", "f", "2", "-">> \o dg \o <<"$">> \o IntToStr(it)
    \o <<"$">> \o bs \o <<"$">> \o bh

\* line 22: len(full_hash)
PrintedLengthOffByOne(s) == Len(s) - 1
PrintedLength(s) == Len(s)

\* line 23: range(0, len(full_hash), 50): the value of i after i
RangeNextShort(j) == j + 49
RangeNext(j) == j + 50

\* line 24: i//50
ChunkIndexOneBased(j) == (j \div 50) + 1
ChunkIndex(j) == j \div 50

\* line 24: full_hash[i:i+50]
ChunkTextShort(s, j) == PySlice(s, j, j + 49)
ChunkText(s, j) == PySlice(s, j, j + 50)

(* ---------------------------- state ------------------------------------ *)
VARIABLES
  argv,       \* sys.argv of the running invocation
  pc,         \* the statement about to run
  password,   \* line 10
  salt,       \* line 11
  dk,         \* line 15
  b64_salt,   \* line 18
  b64_hash,   \* line 19
  full_hash,  \* line 21
  i,          \* loop variable of line 23: the next value range() yields
  output,     \* lines written to standard output, in order
  exitCode,   \* exit status of the process, -1 while it runs
  randLog,    \* values os.urandom returned to this invocation, in order
  kdfLog,     \* arguments of the pbkdf2_hmac calls of this invocation
  history     \* the finished first invocation: password, salt, hash, status

vars == <<argv, pc, password, salt, dk, b64_salt, b64_hash, full_hash, i,
          output, exitCode, randLog, kdfLog, history>>

\* a process image before its first statement
Fresh ==
  /\ pc = "check"
  /\ password = <<>>
  /\ salt = <<>>
  /\ dk = <<>>
  /\ b64_salt = <<>>
  /\ b64_hash = <<>>
  /\ full_hash = <<>>
  /\ i = 0
  /\ output = <<>>
  /\ exitCode = -1
  /\ randLog = <<>>
  /\ kdfLog = <<>>

Init ==
  /\ argv \in ArgvSet
  /\ Fresh
  /\ history = <<>>

(* ---------------------------- statements ------------------------------- *)
\* line 6
CheckArgs ==
  /\ pc = "check"
  /\ pc' = IF ArgCheckFails(argv) THEN "usage" ELSE "read_arg"
  /\ UNCHANGED <<argv, password, salt, dk, b64_salt, b64_hash, full_hash, i,
                 output, exitCode, randLog, kdfLog, history>>

\* line 7
PrintUsage ==
  /\ pc = "usage"
  /\ output' = Append(output, UsageLine)
  /\ pc' = "exit"
  /\ UNCHANGED <<argv, password, salt, dk, b64_salt, b64_hash, full_hash, i,
                 exitCode, randLog, kdfLog, history>>

\* line 8
SysExit ==
  /\ pc = "exit"
  /\ exitCode' = UsageExitStatus
  /\ pc' = "done"
  /\ UNCHANGED <<argv, password, salt, dk, b64_salt, b64_hash, full_hash, i,
                 output, randLog, kdfLog, history>>

\* line 10
ReadArg ==
  /\ pc = "read_arg"
  /\ password' = PasswordArg(argv)
  /\ pc' = "gen_salt"
  /\ UNCHANGED <<argv, salt, dk, b64_salt, b64_hash, full_hash, i, output,
                 exitCode, randLog, kdfLog, history>>

\* line 11 (lines 12 and 13 bind the constants iterations and digest)
GenSalt ==
  /\ pc = "gen_salt"
  /\ \E r \in OsUrandom(SaltBytes) :
       /\ salt' = r
       /\ randLog' = Append(randLog, r)
  /\ pc' = "derive"
  /\ UNCHANGED <<argv, password, dk, b64_salt, b64_hash, full_hash, i, output,
                 exitCode, kdfLog, history>>

\* line 15
Derive ==
  /\ pc = "derive"
  /\ dk' = Pbkdf2Hmac(digest, Utf8Encode(password), salt, iterations)
  /\ kdfLog' = Append(kdfLog, [hash_name |-> digest,
                               password |-> Utf8Encode(password),
                               salt |-> salt,
                               iterations |-> iterations])
  /\ pc' = "encode_salt"
  /\ UNCHANGED <<argv, password, salt, b64_salt, b64_hash, full_hash, i,
                 output, exitCode, randLog, history>>

\* line 18
EncodeSalt ==
  /\ pc = "encode_salt"
  /\ b64_salt' = EncodeField(salt)
  /\ pc' = "encode_hash"
  /\ UNCHANGED <<argv, password, salt, dk, b64_hash, full_hash, i, output,
                 exitCode, randLog, kdfLog, history>>

\* line 19
EncodeHash ==
  /\ pc = "encode_hash"
  /\ b64_hash' = EncodeField(dk)
  /\ pc' = "assemble"
  /\ UNCHANGED <<argv, password, salt, dk, b64_salt, full_hash, i, output,
                 exitCode, randLog, kdfLog, history>>

\* line 21
Assemble ==
  /\ pc = "assemble"
  /\ full_hash' = FullHash(digest, iterations, b64_salt, b64_hash)
  /\ pc' = "print_length"
  /\ UNCHANGED <<argv, password, salt, dk, b64_salt, b64_hash, i, output,
                 exitCode, randLog, kdfLog, history>>

\* line 22; range() of line 23 starts at 0
PrintLength ==
  /\ pc = "print_length"
  /\ output' = Append(output, LengthLine(PrintedLength(full_hash)))
  /\ i' = 0
  /\ pc' = "loop"
  /\ UNCHANGED <<argv, password, salt, dk, b64_salt, b64_hash, full_hash,
                 exitCode, randLog, kdfLog, history>>

\* lines 23-24: one iteration of the loop
PrintChunk ==
  /\ pc = "loop"
  /\ i < Len(full_hash)
  /\ output' = Append(output, ChunkLine(ChunkIndex(i), ChunkText(full_hash, i)))
  /\ i' = RangeNext(i)
  /\ UNCHANGED <<argv, pc, password, salt, dk, b64_salt, b64_hash, full_hash,
                 exitCode, randLog, kdfLog, history>>

\* line 23 exhausted: the script ends and the interpreter exits with 0
Finish ==
  /\ pc = "loop"
  /\ i >= Len(full_hash)
  /\ exitCode' = 0
  /\ pc' = "done"
  /\ UNCHANGED <<argv, password, salt, dk, b64_salt, b64_hash, full_hash, i,
                 output, randLog, kdfLog, history>>

\* the script is run a second time: a new process, nothing carried over
Reinvoke ==
  /\ pc = "done"
  /\ history = <<>>
  /\ history' = Append(history, [password |-> password, salt |-> salt,
                                 full_hash |-> full_hash,
                                 exitCode |-> exitCode])
  /\ argv' \in ArgvSet
  /\ pc' = "check"
  /\ password' = <<>>
  /\ salt' = <<>>
  /\ dk' = <<>>
  /\ b64_salt' = <<>>
  /\ b64_hash' = <<>>
  /\ full_hash' = <<>>
  /\ i' = 0
  /\ output' = <<>>
  /\ exitCode' = -1
  /\ randLog' = <<>>
  /\ kdfLog' = <<>>

Next ==
  \/ CheckArgs
  \/ PrintUsage
  \/ SysExit
  \/ ReadArg
  \/ GenSalt
  \/ Derive
  \/ EncodeSalt
  \/ EncodeHash
  \/ Assemble
  \/ PrintLength
  \/ PrintChunk
  \/ Finish
  \/ Reinvoke

Spec == Init /\ [][Next]_vars

(* ------------- the chunk loop on strings of every length --------------- *)
\* a string of length n in which characters 50 apart, and neighbours, differ
TestStr(n, off) == [k \in 1..n |-> B64Alphabet[((k - 1 + off) % 64) + 1]]

InitChunk ==
  /\ argv = <<ProgName, <<>>>>
  /\ pc = "print_length"
  /\ password = <<>>
  /\ salt = <<>>
  /\ dk = <<>>
  /\ b64_salt = <<>>
  /\ b64_hash = <<>>
  /\ full_hash \in {TestStr(n, off) : n \in 0..MaxStrLen, off \in 0..MaxOff}
  /\ i = 0
  /\ output = <<>>
  /\ exitCode = -1
  /\ randLog = <<>>
  /\ kdfLog = <<>>
  /\ history = <<>>

NextChunk ==
  \/ PrintLength
  \/ PrintChunk
  \/ Finish

SpecChunk == InitChunk /\ [][NextChunk]_vars

(* ---------------------------- observations ----------------------------- *)
\* number of arguments given on the command line
ArgCount == Len(argv) - 1

IsChunk(l) == l.kind = "Chunk"
IsLength(l) == l.kind = "Length"
IsUsage(l) == l.kind = "Usage"

ChunkLines == SelectSeq(output, IsChunk)
LengthLines == SelectSeq(output, IsLength)
UsageLines == SelectSeq(output, IsUsage)

\* the payloads of a sequence of lines, joined in order
RECURSIVE Concat(_)
Concat(ls) == IF ls = <<>> THEN <<>> ELSE Head(ls).text \o Concat(Tail(ls))

CeilDiv(a, b) == (a + b - 1) \div b

\* s.split(sep)
RECURSIVE Split(_, _)
Split(s, sep) ==
  IF \A k \in 1..Len(s) : s[k] # sep THEN <<s>>
  ELSE LET k == CHOOSE k \in 1..Len(s) :
                  s[k] = sep /\ \A j \in 1..(k - 1) : s[j] # sep
       IN  <<SubSeq(s, 1, k - 1)>> \o Split(SubSeq(s, k + 1, Len(s)), sep)

B64Chars == {B64Alphabet[k] : k \in 1..64}
OnlyB64(s) == \A k \in 1..Len(s) : s[k] \in B64Chars

HashPrefix ==
  <<"$", "p", "b", "k", "d", "f", "2", "-", "s", "h", "a", "5", "1", "2", "$",
    "3", "1", "0", "0", "0", "0", "$">>

\* line 21 has run in this invocation
Assembled == pc \in {"print_length", "loop", "done"} /\ ArgCount >= 1

\* line 19 has run in this invocation
HashEncoded == Assembled \/ (pc = "assemble" /\ ArgCount >= 1)

\* line 18 has run in this invocation
SaltEncoded == HashEncoded \/ (pc = "encode_hash" /\ ArgCount >= 1)

NoHashing ==
  /\ randLog = <<>>
  /\ kdfLog = <<>>
  /\ LengthLines = <<>>
  /\ ChunkLines = <<>>

(* ---------------------------- C1 --------------------------------------- *)
\* C1 as stated: every invocation whose argument count is not exactly one
\* (zero, or two and more) prints the usage message and ends with a non-zero
\* status without drawing a salt, deriving a key or printing a Length or
\* Chunk line.
C1_AsStated ==
  ArgCount # 1 =>
    /\ NoHashing
    /\ pc = "done" => (exitCode # 0 /\ UsageLines # <<>>)

\* C1 amended: the check is for a missing argument only.  With zero arguments
\* the run prints the usage message and ends with a non-zero status without
\* drawing a salt, deriving a key or printing a Length or Chunk line; with
\* one or more arguments no usage message is printed and the run ends with
\* status 0 after hashing.
C1_MissingArgumentOnly ==
  /\ ArgCount = 0 =>
       /\ NoHashing
       /\ pc = "done" => (exitCode # 0 /\ UsageLines # <<>>)
  /\ ArgCount >= 1 =>
       /\ UsageLines = <<>>
       /\ pc = "done" => (exitCode = 0 /\ Len(randLog) = 1 /\ Len(kdfLog) = 1)

C1_Witness ==
  /\ pc = "done"
  /\ ArgCount = 2
  /\ exitCode = 0
  /\ history # <<>>
  /\ history[1].exitCode = 1

(* ---------------------------- C2 --------------------------------------- *)
\* C2: with zero arguments the run ends with exit status 1 after printing
\* the usage line exactly once; the random source is never read, PBKDF2 is
\* never called, and nothing but that one usage line is ever printed.
C2_ZeroArguments ==
  ArgCount = 0 =>
    /\ randLog = <<>>
    /\ kdfLog = <<>>
    /\ output \in {<<>>, <<UsageLine>>}
    /\ exitCode \in {-1, 1}
    /\ pc = "done" => (exitCode = 1 /\ output = <<UsageLine>>)

C2_Witness ==
  /\ pc = "done"
  /\ ArgCount = 0
  /\ output = <<UsageLine>>
  /\ exitCode = 1

(* ---------------------------- C3 --------------------------------------- *)
\* C3: for a string of any length, the chunk payloads printed so far are,
\* joined in order, a prefix of the string; when the loop has ended they are
\* the whole string, and the number of chunk lines is ceil(length / 50).
C3_ChunksRebuildString ==
  LET joined == Concat(ChunkLines)
  IN  /\ Len(joined) <= Len(full_hash)
      /\ joined = SubSeq(full_hash, 1, Len(joined))
      /\ pc = "done" =>
           /\ joined = full_hash
           /\ Len(ChunkLines) = CeilDiv(Len(full_hash), 50)

C3_Witness ==
  /\ pc = "done"
  /\ Len(full_hash) = 131
  /\ Len(ChunkLines) = 3
  /\ Len(ChunkLines[3].text) = 31

(* ---------------------------- C4 --------------------------------------- *)
\* C4: in a successful run the integer on the Length line is the length of
\* the string obtained by joining all printed chunks in order.
C4_LengthMatchesChunks ==
  (pc = "done" /\ exitCode = 0) =>
    /\ Len(LengthLines) = 1
    /\ LengthLines[1].n = Len(Concat(ChunkLines))
    /\ LengthLines[1].n = Len(full_hash)

C4_Witness ==
  /\ pc = "done"
  /\ exitCode = 0
  /\ LengthLines # <<>>
  /\ LengthLines[1].n = 131
  /\ Len(Concat(ChunkLines)) = 131

(* ---------------------------- C5 --------------------------------------- *)
\* C5: the assembled string is '$pbkdf2-sha512$310000$<salt>$<hash>': exactly
\* four '$', each opening a field; the algorithm field is 'pbkdf2-sha512',
\* the iteration field '310000', and the salt and hash fields are non-empty
\* and made of characters of [A-Za-z0-9+/] only.
C5_HashShape ==
  Assembled =>
    LET f == Split(full_hash, "$")
    IN  /\ Len(f) = 5
        /\ f[1] = <<>>
        /\ f[2] = <<"p", "b", "k", "d", "f", "2", "-", "s", "h", "a", "5", "1", "2">>
        /\ f[3] = <<"3", "1", "0", "0", "0", "0">>
        /\ f[4] # <<>> /\ OnlyB64(f[4])
        /\ f[5] # <<>> /\ OnlyB64(f[5])

C5_Witness ==
  /\ pc = "print_length"
  /\ ArgCount >= 1
  /\ Len(password) = 2
  /\ Len(Split(full_hash, "$")) = 5

(* ---------------------------- C6 --------------------------------------- *)
\* C6: the salt segment is the 24-character base64 of the 16 salt bytes
\* without its '==' (22 characters), the hash segment the 88-character
\* base64 of the 64 key bytes without its '==' (86 characters); the string
\* starts with '$pbkdf2-sha512$310000$' and is 131 characters long.
C6_SegmentLengths ==
  /\ SaltEncoded =>
       /\ Len(salt) = 16
       /\ Len(b64_salt) = 22
       /\ B64Encode(salt) = b64_salt \o <<"=", "=">>
  /\ HashEncoded =>
       /\ Len(dk) = 64
       /\ Len(b64_hash) = 86
       /\ B64Encode(dk) = b64_hash \o <<"=", "=">>
  /\ Assembled =>
       /\ Len(full_hash) = 131
       /\ SubSeq(full_hash, 1, 22) = HashPrefix
       /\ SubSeq(full_hash, 23, 44) = b64_salt
       /\ SubSeq(full_hash, 46, 131) = b64_hash

C6_Witness ==
  /\ pc = "done"
  /\ exitCode = 0
  /\ password = <<>>
  /\ Len(b64_salt) = 22
  /\ Len(b64_hash) = 86
  /\ Len(full_hash) = 131

(* ---------------------------- C7 --------------------------------------- *)
\* C7: when an argument is present the first line printed is the Length
\* line, every later line is a chunk line, and the chunk indices are
\* 0, 1, 2, ... in that order; the process has an exit status only after the
\* last chunk, the status is 0, and no usage line is printed.
C7_OutputOrder ==
  ArgCount >= 1 =>
    /\ \A k \in 1..Len(output) :
         /\ k = 1 => IsLength(output[k])
         /\ k > 1 => (IsChunk(output[k]) /\ output[k].n = k - 2)
    /\ exitCode # -1 =>
         /\ exitCode = 0
         /\ pc = "done"
         /\ Len(output) = 1 + CeilDiv(Len(full_hash), 50)
    /\ pc = "done" => exitCode = 0

C7_Witness ==
  /\ pc = "done"
  /\ ArgCount = 1
  /\ Len(output) = 4
  /\ IsLength(output[1])
  /\ output[4].n = 2

(* ---------------------------- C8 --------------------------------------- *)
SamePasswordAsRun(h) == Assembled /\ h.exitCode = 0 /\ h.password = password

\* C8 as stated: two runs with the same password have different salts and
\* therefore different hash strings.
C8_AsStated ==
  \A r \in 1..Len(history) :
    SamePasswordAsRun(history[r]) =>
      /\ history[r].salt # salt
      /\ history[r].full_hash # full_hash

\* C8 amended: each run draws its salt afresh, and two draws may coincide;
\* whenever two runs with the same password have different salts, their
\* hash strings differ.
C8_DistinctSaltsDistinctHashes ==
  \A r \in 1..Len(history) :
    (SamePasswordAsRun(history[r]) /\ history[r].salt # salt) =>
      history[r].full_hash # full_hash

C8_Witness ==
  /\ pc = "done"
  /\ history # <<>>
  /\ SamePasswordAsRun(history[1])
  /\ history[1].salt # salt
  /\ history[1].full_hash # full_hash

(* ---------------------------- C9 --------------------------------------- *)
\* C9: the chunk printed with index k is the characters at positions 50k to
\* min(50k+50, L)-1 of the string; a chunk that is followed by another has 50
\* characters, the last has 1 to 50, none is empty, and a string of length
\* L >= 1 gives at least one chunk.
C9_ChunkContents ==
  LET L == Len(full_hash)
      cs == ChunkLines
  IN  /\ \A j \in 1..Len(cs) :
           /\ cs[j].n = j - 1
           /\ cs[j].text = SubSeq(full_hash, 50 * cs[j].n + 1,
                                  Min(50 * cs[j].n + 50, L))
           /\ Len(cs[j].text) >= 1
           /\ Len(cs[j].text) <= 50
           /\ j < Len(cs) => Len(cs[j].text) = 50
      /\ (pc = "done" /\ L >= 1) =>
           /\ cs # <<>>
           /\ 50 * (Len(cs) - 1) + Len(cs[Len(cs)].text) = L

C9_Witness ==
  /\ pc = "done"
  /\ Len(full_hash) = 150
  /\ Len(ChunkLines) = 3
  /\ Len(ChunkLines[3].text) = 50

(* ---------------------------- C10 -------------------------------------- *)
\* C10: when an argument is present the random source is read at most once
\* and not before the argument check; once the string is assembled it has
\* been read exactly once, the key derivation has been called exactly once,
\* with the UTF-8 bytes of the first argument and the salt drawn, the third
\* field of the string is the unpadded base64 of that salt and the fourth
\* the unpadded base64 of the key derived from that password and salt.
C10_OneSaltUsedThroughout ==
  ArgCount >= 1 =>
    /\ Len(randLog) <= 1
    /\ Len(kdfLog) <= 1
    /\ pc \in {"check", "read_arg", "gen_salt"} => randLog = <<>>
    /\ Assembled =>
         /\ Len(randLog) = 1
         /\ Len(kdfLog) = 1
         /\ kdfLog[1].password = Utf8Encode(argv[2])
         /\ kdfLog[1].salt = randLog[1]
         /\ kdfLog[1].iterations = 310000
         /\ LET f == Split(full_hash, "$")
            IN  /\ f[4] = RStripPad(B64Encode(randLog[1]))
                /\ f[5] = RStripPad(B64Encode(
                            Pbkdf2Hmac(digest, Utf8Encode(argv[2]),
                                       randLog[1], 310000)))

C10_Witness ==
  /\ pc = "done"
  /\ ArgCount = 2
  /\ Len(randLog) = 1
  /\ Len(Utf8Encode(password)) > Len(password)
  /\ Split(full_hash, "$")[4] = RStripPad(B64Encode(randLog[1]))

====
